---- MODULE Spec2Model ----
(***************************************************************************)
(* ThreadSafeCounter of shared_mutex.cpp: an unsigned int guarded by a     *)
(* std::shared_mutex, called from several threads.  Every statement of     *)
(* get(), increment() and reset() that touches the mutex or value_ is one  *)
(* step of the calling thread.                                             *)
(***************************************************************************)
EXTENDS Integers, FiniteSets, Sequences, TLC

\* ---------------------------------------------------------------- bounds
NumThreads == 3          \* threads calling the counter
MaxCalls == 4            \* calls the threads make in all
NumWriters == 1          \* main: threads running increment_counter
ReaderLoops == 2         \* main: iterations of print_counter
TicksPerUnit == 2        \* ticks of CLOCK_T in one unit of T
MaxTime == 6             \* last instant of the clock that is looked at
MaxOps == 4              \* calls made on one timer

\* ------------------------------------------------------ program constants
UIntBits == 32           \* width of unsigned int value_

\* An unsigned int is kept as <<high half, low half>>, each half below
\* HalfModulus, so that every value of the 32-bit range is written exactly.
HalfModulus == 2 ^ (UIntBits \div 2)
UInt(n) == <<n \div HalfModulus, n % HalfModulus>>
UIntMax == <<HalfModulus - 1, HalfModulus - 1>>
Zero == UInt(0)

Threads == 1 .. NumThreads
NoThread == 0
NoValue == <<>>

\* value_ has no initializer and the constructor is defaulted: the object
\* `ThreadSafeCounter counter;` of main starts with an indeterminate value_.
IndeterminateValues == {Zero, UInt(1), UIntMax}

\* std::shared_mutex leaves open whether a writer that waits bars new
\* readers.  glibc's pthread_rwlock (libstdc++) prefers readers; the
\* two-gate implementation (libc++, libstdc++ without pthread_rwlock) makes
\* a waiting writer set write_entered, which holds new readers back.
Policies == {"reader_pref", "writer_pref"}

VARIABLES
    value,      \* ThreadSafeCounter::value_
    writer,     \* mutex_: thread holding it exclusively, or NoThread
    readers,    \* mutex_: threads holding it shared
    entered,    \* mutex_: waiting writer that bars new readers, or NoThread
    policy,     \* mutex_: preference of the build's std::shared_mutex
    pc,         \* statement each thread is at
    calls,      \* calls started so far, by all threads
    tmp,        \* increment(): value_ read by ++value_ before it is stored
    logged,     \* get(): value_ read for the log line
    ret,        \* get(): value_ read for the return value
    incDone,    \* increment() calls returned since construction / last reset() return
    resetCalled,    \* some reset() call has started
    resetReturned,  \* some reset() call has returned
    \* main: the reader and writer threads
    loops,      \* iterations each thread function has left
    joined,     \* threads main has joined
    v0,         \* value_ as the constructor left it
    prevRet,    \* what the previous get() of each thread returned
    behind,     \* the calls of lock() that waited already when each thread called get()
    \* Timer<std::chrono::milliseconds> t of main
    now,        \* CLOCK_T::now(), in ticks of the clock
    start_,     \* Timer::start_
    end_,       \* Timer::end_
    reported,   \* what tics() / get_duration<U>() returned since the last tic() or toc()
    history,    \* the calls made on the timer since its construction, in order
    ticAt,      \* instant of the last tic(), or of the construction
    tocAt,      \* instant of the last toc() after it
    waited,     \* units slept since the last tic() or the construction
    measured    \* units slept between the last tic() or construction and the last toc()

counterVars == <<value, writer, readers, entered, policy, pc, calls, tmp, logged, ret,
                 incDone, resetCalled, resetReturned>>
driverVars == <<loops, joined, v0, prevRet, behind>>
timerVars == <<now, start_, end_, reported, history, ticAt, tocAt, waited, measured>>

vars == <<counterVars, driverVars, timerVars>>

lockVars == <<writer, readers, entered>>
histVars == <<incDone, resetCalled, resetReturned>>

GetPcs == {"get_lock", "get_log", "get_ret", "get_unlock"}
IncPcs == {"inc_lock", "inc_read", "inc_write", "inc_log", "inc_unlock"}
RstPcs == {"rst_lock", "rst_write", "rst_unlock"}

\* inside the critical section: after the lock constructor, before the destructor
InReadCS(t) == pc[t] \in {"get_log", "get_ret", "get_unlock"}
InWriteCS(t) == pc[t] \in {"inc_read", "inc_write", "inc_log", "inc_unlock",
                           "rst_write", "rst_unlock"}
AtLockShared(t) == pc[t] = "get_lock"
AtLock(t) == pc[t] \in {"inc_lock", "rst_lock"}
NoCall(t) == pc[t] \in {"idle", "failed", "lock_failed"}

\* ThreadSafeCounter counter;
CounterInit ==
    /\ value \in IndeterminateValues
    /\ writer = NoThread
    /\ readers = {}
    /\ entered = NoThread
    /\ policy \in Policies
    /\ pc = [t \in Threads |-> "idle"]
    /\ calls = 0
    /\ tmp = [t \in Threads |-> NoValue]
    /\ logged = [t \in Threads |-> NoValue]
    /\ ret = [t \in Threads |-> NoValue]
    /\ incDone = 0
    /\ resetCalled = FALSE
    /\ resetReturned = FALSE

\* the threads of main and the timer are not part of the calls on the counter
NoDriver ==
    /\ loops = [t \in Threads |-> 0]
    /\ joined = 0
    /\ v0 = NoValue
    /\ prevRet = [t \in Threads |-> NoValue]
    /\ behind = [t \in Threads |-> {}]

NoTimer ==
    /\ now = 0
    /\ start_ = 0
    /\ end_ = 0
    /\ reported = <<>>
    /\ history = <<>>
    /\ ticAt = 0
    /\ tocAt = 0
    /\ waited = 0
    /\ measured = 0

Init == CounterInit /\ NoDriver /\ NoTimer

\* ------------------------------------------------------ std::shared_mutex
\* lock_shared() returns once no thread owns the mutex exclusively (and, on a
\* writer-preferring build, no writer has entered).
CanLockSharedIgnoringWriter(t) == entered = NoThread
CanLockSharedAlone(t) == writer = NoThread /\ readers = {} /\ entered = NoThread
CanLockSharedBehindWriters(t) ==
    writer = NoThread /\ entered = NoThread /\ \A w \in Threads : ~AtLock(w)
CanLockShared(t) == writer = NoThread /\ entered = NoThread

\* lock() returns once the mutex has no owner at all.
CanLockIgnoringWriter(t) == readers = {} /\ entered \in {NoThread, t}
CanLockIgnoringReaders(t) == writer = NoThread /\ entered \in {NoThread, t}
CanLock(t) == writer = NoThread /\ readers = {} /\ entered \in {NoThread, t}

ReleaseNothing(t) == UNCHANGED lockVars

\* ~shared_lock / ~unique_lock: give up whatever t owns.
Release(t) ==
    /\ readers' = readers \ {t}
    /\ writer' = IF writer = t THEN NoThread ELSE writer
    /\ entered' = entered

\* the thread function calls get(), increment() or reset()
Call(t, op) ==
    /\ pc[t] = "idle"
    /\ calls < MaxCalls
    /\ calls' = calls + 1
    /\ pc' = [pc EXCEPT ![t] = op]
    /\ logged' = [logged EXCEPT ![t] = NoValue]
    /\ ret' = [ret EXCEPT ![t] = NoValue]
    /\ resetCalled' = (resetCalled \/ op = "rst_lock")
    /\ UNCHANGED <<value, lockVars, policy, tmp, incDone, resetReturned>>
    /\ UNCHANGED <<driverVars, timerVars>>

\* ---------------------------------------------------------------- get()
\* std::shared_lock lock(mutex_);
LockShared(t) ==
    /\ AtLockShared(t)
    /\ CanLockShared(t)
    /\ readers' = readers \cup {t}
    /\ pc' = [pc EXCEPT ![t] = "get_log"]
    /\ UNCHANGED <<value, writer, entered, policy, calls, tmp, logged, ret, histVars>>
    /\ UNCHANGED <<driverVars, timerVars>>

\* std::cout << "READER: Value: " << value_ << std::endl;
GetLog(t) ==
    /\ pc[t] = "get_log"
    /\ logged' = [logged EXCEPT ![t] = value]
    /\ pc' = [pc EXCEPT ![t] = "get_ret"]
    /\ UNCHANGED <<value, lockVars, policy, calls, tmp, ret, histVars>>
    /\ UNCHANGED <<driverVars, timerVars>>

\* return value_;   (the operand is read before lock is destroyed)
GetRead(t) ==
    /\ pc[t] = "get_ret"
    /\ ret' = [ret EXCEPT ![t] = value]
    /\ pc' = [pc EXCEPT ![t] = "get_unlock"]
    /\ UNCHANGED <<value, lockVars, policy, calls, tmp, logged, histVars>>
    /\ UNCHANGED <<driverVars, timerVars>>

\* } of get(): ~shared_lock, then the call returns ret[t]
GetUnlock(t) ==
    /\ pc[t] = "get_unlock"
    /\ Release(t)
    /\ pc' = [pc EXCEPT ![t] = "idle"]
    /\ UNCHANGED <<value, policy, calls, tmp, logged, ret, histVars>>
    /\ UNCHANGED <<driverVars, timerVars>>

\* ---------------------------------------------------------- increment()
\* a waiting writer enters: on a writer-preferring build lock() first sets
\* write_entered, which holds new readers back, then waits for the readers
\* inside to leave
Announce(t) ==
    /\ policy = "writer_pref"
    /\ AtLock(t)
    /\ entered = NoThread
    /\ writer = NoThread
    /\ readers # {}
    /\ entered' = t
    /\ UNCHANGED <<value, writer, readers, policy, pc, calls, tmp, logged, ret, histVars>>
    /\ UNCHANGED <<driverVars, timerVars>>

\* std::unique_lock lock(mutex_);   (increment() and reset())
Lock(t) ==
    /\ AtLock(t)
    /\ CanLock(t)
    /\ writer' = t
    /\ entered' = NoThread
    /\ pc' = [pc EXCEPT ![t] = IF pc[t] = "inc_lock" THEN "inc_read" ELSE "rst_write"]
    /\ UNCHANGED <<value, readers, policy, calls, tmp, logged, ret, histVars>>
    /\ UNCHANGED <<driverVars, timerVars>>

\* ++ on unsigned int wraps from the largest value to 0
Incremented(v) ==
    IF v[2] = HalfModulus - 1
    THEN <<(v[1] + 1) % HalfModulus, 0>>
    ELSE <<v[1], v[2] + 1>>

\* ++value_;   the load
IncRead(t) ==
    /\ pc[t] = "inc_read"
    /\ tmp' = [tmp EXCEPT ![t] = value]
    /\ pc' = [pc EXCEPT ![t] = "inc_write"]
    /\ UNCHANGED <<value, lockVars, policy, calls, logged, ret, histVars>>
    /\ UNCHANGED <<driverVars, timerVars>>

\* ++value_;   the store
IncWrite(t) ==
    /\ pc[t] = "inc_write"
    /\ value' = Incremented(tmp[t])
    /\ tmp' = [tmp EXCEPT ![t] = NoValue]
    /\ pc' = [pc EXCEPT ![t] = "inc_log"]
    /\ UNCHANGED <<lockVars, policy, calls, logged, ret, histVars>>
    /\ UNCHANGED <<driverVars, timerVars>>

\* std::cout << "WRITER: Value: " << value_ << std::endl;
IncLog(t) ==
    /\ pc[t] = "inc_log"
    /\ pc' = [pc EXCEPT ![t] = "inc_unlock"]
    /\ UNCHANGED <<value, lockVars, policy, calls, tmp, logged, ret, histVars>>
    /\ UNCHANGED <<driverVars, timerVars>>

\* } of increment(): ~unique_lock, then the call returns
IncUnlock(t) ==
    /\ pc[t] = "inc_unlock"
    /\ Release(t)
    /\ pc' = [pc EXCEPT ![t] = "idle"]
    /\ incDone' = incDone + 1
    /\ UNCHANGED <<value, policy, calls, tmp, logged, ret, resetCalled, resetReturned>>
    /\ UNCHANGED <<driverVars, timerVars>>

\* -------------------------------------------------------------- reset()
RstWriteKeepsValue(t) ==
    /\ pc[t] = "rst_write"
    /\ pc' = [pc EXCEPT ![t] = "rst_unlock"]
    /\ UNCHANGED <<value, lockVars, policy, calls, tmp, logged, ret, histVars>>
    /\ UNCHANGED <<driverVars, timerVars>>

\* value_ = 0;
RstWrite(t) ==
    /\ pc[t] = "rst_write"
    /\ value' = Zero
    /\ pc' = [pc EXCEPT ![t] = "rst_unlock"]
    /\ UNCHANGED <<lockVars, policy, calls, tmp, logged, ret, histVars>>
    /\ UNCHANGED <<driverVars, timerVars>>

\* } of reset(): ~unique_lock, then the call returns
RstUnlock(t) ==
    /\ pc[t] = "rst_unlock"
    /\ Release(t)
    /\ pc' = [pc EXCEPT ![t] = "idle"]
    /\ incDone' = 0
    /\ resetReturned' = TRUE
    /\ UNCHANGED <<value, policy, calls, tmp, logged, ret, resetCalled>>
    /\ UNCHANGED <<driverVars, timerVars>>

\* ------------------------------------------------------- abnormal exit
UnwindKeepsLock(t) == UNCHANGED lockVars

\* stack unwinding runs the destructor of the lock object of the frame
UnwindRelease(t) == Release(t)

\* the stream insertion of get() or increment() throws (std::cout with an
\* exception mask set): the exception leaves the call through the lock's scope
Throw(t) ==
    /\ pc[t] \in {"get_log", "inc_log"}
    /\ UnwindRelease(t)
    /\ pc' = [pc EXCEPT ![t] = "failed"]
    /\ UNCHANGED <<value, policy, calls, tmp, logged, ret, histVars>>
    /\ UNCHANGED <<driverVars, timerVars>>

LockFailureIgnoredPc(t) ==
    IF pc[t] = "get_lock" THEN "get_log"
    ELSE IF pc[t] = "inc_lock" THEN "inc_read" ELSE "rst_write"

\* where a call goes when the constructor of its lock object throws: out of
\* the function, no statement of the body is reached
LockFailurePc(t) == "lock_failed"

\* lock_shared() or lock() reports an error (std::system_error) on entry: the
\* constructor of std::shared_lock / std::unique_lock throws, no lock object
\* exists and nothing is caught
LockFails(t) ==
    /\ AtLock(t) \/ AtLockShared(t)
    /\ entered # t
    /\ pc' = [pc EXCEPT ![t] = LockFailurePc(t)]
    /\ UNCHANGED <<value, lockVars, policy, calls, tmp, logged, ret, histVars>>
    /\ UNCHANGED <<driverVars, timerVars>>

\* ------------------------------------------------------ specifications
Next ==
    \/ \E t \in Threads, op \in {"get_lock", "inc_lock", "rst_lock"} : Call(t, op)
    \/ \E t \in Threads : LockShared(t)
    \/ \E t \in Threads : GetLog(t)
    \/ \E t \in Threads : GetRead(t)
    \/ \E t \in Threads : GetUnlock(t)
    \/ \E t \in Threads : Announce(t)
    \/ \E t \in Threads : Lock(t)
    \/ \E t \in Threads : IncRead(t)
    \/ \E t \in Threads : IncWrite(t)
    \/ \E t \in Threads : IncLog(t)
    \/ \E t \in Threads : IncUnlock(t)
    \/ \E t \in Threads : RstWrite(t)
    \/ \E t \in Threads : RstUnlock(t)

\* the program as written: std::cout keeps its default exception mask, no
\* statement inside a critical section throws
Spec == Init /\ [][Next]_vars

\* the same calls when the statements that log may throw
NextFail ==
    \/ Next
    \/ \E t \in Threads : Throw(t)
    \/ \E t \in Threads : LockFails(t)

SpecFail == Init /\ [][NextFail]_vars

\* ------------------------------------------------------------------ main
\* main creates the threads running print_counter first, then the writers
Writers == {t \in Threads : t > NumThreads - NumWriters}
Readers == Threads \ Writers
\* increment_counter iterates fewer times than print_counter (1000, 10000)
WriterLoops == IF ReaderLoops \div 2 > 0 THEN ReaderLoops \div 2 ELSE ReaderLoops
LoopCount(t) == IF t \in Readers THEN ReaderLoops ELSE WriterLoops

\* the callers of lock() that are held back
WaitingWriters == {w \in Threads : AtLock(w) /\ ~CanLock(w)}

\* ThreadSafeCounter counter; and the threads created
DriverInit ==
    /\ CounterInit
    /\ loops = [t \in Threads |-> LoopCount(t)]
    /\ joined = 0
    /\ v0 = value
    /\ prevRet = [t \in Threads |-> NoValue]
    /\ behind = [t \in Threads |-> {}]
    /\ NoTimer

\* one iteration of the for loop of print_counter / increment_counter:
\* counter.get() or counter.increment() is called
DriverCall(t) ==
    /\ pc[t] = "idle"
    /\ loops[t] > 0
    /\ loops' = [loops EXCEPT ![t] = @ - 1]
    /\ pc' = [pc EXCEPT ![t] = IF t \in Readers THEN "get_lock" ELSE "inc_lock"]
    /\ prevRet' = [prevRet EXCEPT ![t] = IF ret[t] # NoValue THEN ret[t] ELSE @]
    /\ logged' = [logged EXCEPT ![t] = NoValue]
    /\ ret' = [ret EXCEPT ![t] = NoValue]
    /\ behind' = [behind EXCEPT ![t] =
                    IF t \in Readers
                    THEN {<<w, loops[w]>> : w \in WaitingWriters}
                    ELSE {}]
    /\ UNCHANGED <<value, lockVars, policy, calls, tmp, histVars>>
    /\ UNCHANGED <<joined, v0, timerVars>>

\* the for loop ends and the thread function returns
ThreadExit(t) ==
    /\ pc[t] = "idle"
    /\ loops[t] = 0
    /\ pc' = [pc EXCEPT ![t] = "done"]
    /\ UNCHANGED <<value, lockVars, policy, calls, tmp, logged, ret, histVars>>
    /\ UNCHANGED <<driverVars, timerVars>>

\* thread[i]->join(), then writer.join() ...: in the order of creation, each
\* returning once its thread has finished
Join ==
    /\ joined < NumThreads
    /\ pc[joined + 1] = "done"
    /\ joined' = joined + 1
    /\ UNCHANGED <<counterVars, loops, v0, prevRet, behind, timerVars>>

AllJoined == joined = NumThreads

\* a step of thread t's function
ThreadStep(t) ==
    \/ DriverCall(t)
    \/ LockShared(t) \/ GetLog(t) \/ GetRead(t) \/ GetUnlock(t)
    \/ Announce(t) \/ Lock(t)
    \/ IncRead(t) \/ IncWrite(t) \/ IncLog(t) \/ IncUnlock(t)
    \/ ThreadExit(t)

DriverNext ==
    \/ \E t \in Threads : DriverCall(t)
    \/ \E t \in Threads : LockShared(t)
    \/ \E t \in Threads : GetLog(t)
    \/ \E t \in Threads : GetRead(t)
    \/ \E t \in Threads : GetUnlock(t)
    \/ \E t \in Threads : Announce(t)
    \/ \E t \in Threads : Lock(t)
    \/ \E t \in Threads : IncRead(t)
    \/ \E t \in Threads : IncWrite(t)
    \/ \E t \in Threads : IncLog(t)
    \/ \E t \in Threads : IncUnlock(t)
    \/ \E t \in Threads : ThreadExit(t)
    \/ Join

\* the scheduler runs some thread that can take a step, or main
DriverFairness == WF_vars(DriverNext)

SpecDriver == DriverInit /\ [][DriverNext]_vars /\ DriverFairness

\* ----------------------------------------------------------------- Timer
\* tics(), get_duration<T>() and get_duration<CLOCK_T::duration>()
Accessors == {"tics", "duration", "duration_ticks"}

\* ticks of the clock in one unit of the duration an accessor converts to
Ratio(a) == IF a = "duration_ticks" THEN 1 ELSE TicksPerUnit

\* std::chrono::duration_cast to a coarser integer duration truncates toward 0
DurationCast(d, r) == IF d >= 0 THEN d \div r ELSE -((-d) \div r)

ElapsedToNow(a) == DurationCast(now - start_, Ratio(a))

\* duration_cast<U>(end_ - start_), and .count() of it (as a double in tics(),
\* which is exact for the counts of the model)
Elapsed(a) == DurationCast(end_ - start_, Ratio(a))

NoReadings == [a \in Accessors |-> <<>>]

\* the last call that was not an accessor
LastOp ==
    LET marks == {i \in 1 .. Len(history) : history[i] \in {"tic", "toc"}}
    IN  IF marks = {} THEN "ctor"
        ELSE history[CHOOSE i \in marks : \A j \in marks : j <= i]

TicCalled == \E i \in 1 .. Len(history) : history[i] = "tic"

\* the counter is left aside while the timer is looked at
CounterAside == CounterInit /\ value = Zero /\ policy = "reader_pref"

\* Timer() noexcept : start_{CLOCK_T::now()}, end_{start_} {}
TimerInit ==
    /\ CounterAside
    /\ NoDriver
    /\ now \in 0 .. 1
    /\ start_ = now
    /\ end_ = start_
    /\ reported = NoReadings
    /\ history = <<>>
    /\ ticAt = now
    /\ tocAt = now
    /\ waited = 0
    /\ measured = 0

TicKeepsStart == start_' = start_ /\ end_' = now

\* start_ = end_ = CLOCK_T::now();
TicFields == start_' = now /\ end_' = now

Tic ==
    /\ Len(history) < MaxOps
    /\ TicFields
    /\ history' = Append(history, "tic")
    /\ reported' = NoReadings
    /\ ticAt' = now
    /\ tocAt' = now
    /\ waited' = 0
    /\ measured' = 0
    /\ UNCHANGED <<now, counterVars, driverVars>>

TocSetsStart == start_' = now /\ end_' = end_
TocRestarts == start_' = now /\ end_' = now

\* end_ = CLOCK_T::now();
TocFields == end_' = now /\ start_' = start_

Toc ==
    /\ Len(history) < MaxOps
    /\ TocFields
    /\ history' = Append(history, "toc")
    /\ reported' = NoReadings
    /\ tocAt' = now
    /\ measured' = waited
    /\ UNCHANGED <<now, ticAt, waited, counterVars, driverVars>>

ReadStops == start_' = start_ /\ end_' = now

\* tics() and get_duration() are const
ReadFields == UNCHANGED <<start_, end_>>

\* t.tics(), os << t, t.get_duration<U>()
Read(a) ==
    /\ Len(history) < MaxOps
    /\ ReadFields
    /\ reported' = [reported EXCEPT ![a] = <<Elapsed(a)>>]
    /\ history' = Append(history, a)
    /\ UNCHANGED <<now, ticAt, tocAt, waited, measured, counterVars, driverVars>>

\* std::this_thread::sleep_for(d units of T): returns after at least d units
\* of the steady clock
Sleep(d) ==
    /\ now + d * TicksPerUnit <= MaxTime
    /\ now' \in (now + d * TicksPerUnit) .. MaxTime
    /\ waited' = waited + d
    /\ UNCHANGED <<start_, end_, reported, history, ticAt, tocAt, measured>>
    /\ UNCHANGED <<counterVars, driverVars>>

\* the steady clock advances between two statements, and never goes back
Tick ==
    /\ now < MaxTime
    /\ now' = now + 1
    /\ UNCHANGED <<start_, end_, reported, history, ticAt, tocAt, waited, measured>>
    /\ UNCHANGED <<counterVars, driverVars>>

TimerNext ==
    \/ Tic
    \/ Toc
    \/ \E a \in Accessors : Read(a)
    \/ \E d \in 1 .. MaxTime : Sleep(d)
    \/ Tick

SpecTimer == TimerInit /\ [][TimerNext]_vars

\* ================================================================ claims
WritersInside == {t \in Threads : InWriteCS(t)}
ReadersInside == {t \in Threads : InReadCS(t)}

\* C1  Writer mutual exclusion: in every reachable state at most one thread
\* is inside the critical section of increment() or reset().
WriterMutualExclusion == Cardinality(WritersInside) <= 1

\* a writer is inside while another caller of increment() or reset() waits
WriterInsideWriterWaiting ==
    \E t, u \in Threads : t # u /\ InWriteCS(t) /\ AtLock(u)

\* C2  Reader-writer exclusion: while some thread is inside the critical
\* section of increment() or reset(), no thread is inside that of get().
ReaderWriterExclusion == WritersInside # {} => ReadersInside = {}

\* a writer is inside while a caller of get() waits for the shared lock
WriterInsideReaderWaiting ==
    \E t, u \in Threads : InWriteCS(t) /\ AtLockShared(u)

IncrementInProgress == \E u \in Threads : pc[u] \in IncPcs

\* C3  Count correctness: with no reset() ever called and every started
\* increment() returned, K >= 1 of them in all, a get() returns K.
CountCorrectness ==
    \A t \in Threads :
        (pc[t] = "get_unlock" /\ ~resetCalled /\ ~IncrementInProgress /\ incDone >= 1)
            => ret[t] = UInt(incDone)

MutatorStarted == resetCalled \/ incDone > 0 \/ IncrementInProgress

\* C4  Initial value: a get() that has returned before any increment() or
\* reset() has started returned 0.
InitialValueZero ==
    \A t \in Threads :
        (pc[t] = "idle" /\ ret[t] # NoValue /\ ~MutatorStarted) => ret[t] = Zero

\* C5  Reset correctness: once a reset() has returned, a get() returns the
\* number J of increment() calls that returned since the last reset() returned;
\* with no increment() in between (J = 0) it returns 0.
ResetCorrectness ==
    \A t \in Threads :
        (pc[t] = "get_unlock" /\ resetReturned) => ret[t] = UInt(incDone)

\* a get() reads the value after a reset() and a later increment() returned
GetAfterResetAndIncrement ==
    \E t \in Threads :
        pc[t] = "get_unlock" /\ resetReturned /\ incDone >= 1 /\ ret[t] = UInt(incDone)

\* C6  Lock discipline: a thread about to read value_ in get() holds the lock
\* shared, a thread about to read or write value_ in increment() or reset()
\* holds it exclusively, and no get() is at a read of value_ between the load
\* and the store of an increment.
LockDiscipline ==
    /\ \A t \in Threads :
        pc[t] \in {"get_log", "get_ret"} => (t \in readers /\ writer = NoThread)
    /\ \A t \in Threads :
        pc[t] \in {"inc_read", "inc_write", "inc_log", "rst_write"}
            => (writer = t /\ readers = {})
    /\ \A t, u \in Threads :
        pc[t] = "inc_write" => pc[u] \notin {"get_log", "get_ret"}

\* an increment is between its load and its store while a get() waits
IncrementMidwayReaderWaiting ==
    \E t, u \in Threads : pc[t] = "inc_write" /\ AtLockShared(u)

\* C7  Reader concurrency: the lock does not serialize readers; a caller of
\* get() can take the shared lock while another reader is inside (no waiting
\* writer having entered), and then two readers are inside at once.
ReadersNotSerialized ==
    \A t \in Threads :
        (AtLockShared(t) /\ ReadersInside # {} /\ entered = NoThread)
            => ENABLED (LockShared(t) /\ Cardinality(readers') >= 2)

\* two threads are inside the critical section of get() at once
TwoReadersInside == Cardinality(ReadersInside) >= 2

\* C8 as stated: whenever no thread holds the lock exclusively, a caller of
\* get() can acquire the shared lock, even when writers are waiting.
GetBlocksOnlyOnExclusiveHolder ==
    \A t \in Threads :
        (AtLockShared(t) /\ writer = NoThread) => ENABLED LockShared(t)

\* C8  amended: whenever no thread holds the lock exclusively and no waiting
\* writer has entered (none ever does on a reader-preferring build), a caller
\* of get() can acquire the shared lock, even when readers already hold it.
GetBlocksOnlyOnWriter ==
    \A t \in Threads :
        (AtLockShared(t) /\ writer = NoThread
            /\ (policy = "reader_pref" \/ entered = NoThread))
            => ENABLED LockShared(t)

\* on a reader-preferring build a caller of get() is at the lock while a
\* reader is inside and a writer waits
ReaderArrivesWhileWriterWaits ==
    \E t, u, w \in Threads :
        /\ policy = "reader_pref"
        /\ AtLockShared(t) /\ InReadCS(u) /\ AtLock(w)

\* C9  A caller of increment() or reset() cannot take the lock while a reader
\* holds it shared or another writer holds it exclusively, and it enters its
\* critical section only from a state in which the lock has no holder.
WriterEntersOnlyFreeLock ==
    /\ [](\A t \in Threads :
            (AtLock(t) /\ (readers # {} \/ writer # NoThread)) => ~ENABLED Lock(t))
    /\ [][\A t \in Threads :
            (~InWriteCS(t) /\ InWriteCS(t)') =>
                (readers = {} /\ writer = NoThread
                    /\ ReadersInside = {} /\ WritersInside = {})]_vars

\* a caller of increment() or reset() is held back by a reader that is inside
WriterBlockedByReader ==
    \E t, u \in Threads : AtLock(t) /\ InReadCS(u) /\ ~ENABLED Lock(t)

\* C10  Guaranteed release: a thread with no call in progress, whether its
\* last call returned or failed inside the critical section, holds the lock
\* in no mode; the lock is held only by threads inside a critical section, so
\* with no call in progress the lock has no holder, and when no thread is
\* inside a critical section some waiting caller can take the lock.
GuaranteedRelease ==
    /\ \A t \in Threads : t \in readers => InReadCS(t)
    /\ \A t \in Threads : writer = t => InWriteCS(t)
    /\ (\A t \in Threads : NoCall(t)) => (readers = {} /\ writer = NoThread)
    /\ (ReadersInside = {} /\ WritersInside = {}
            /\ \E t \in Threads : AtLock(t) \/ AtLockShared(t))
        => \E t \in Threads : ENABLED Lock(t) \/ ENABLED LockShared(t)

\* after a call failed inside its critical section another thread is inside
FailedCallThenOtherInside ==
    \E t, u \in Threads : pc[t] = "failed" /\ t # u /\ InWriteCS(u)

\* C11  Lock-acquisition failure is fatal: a call leaves its lock statement
\* either owning the lock or by the error, and then value_ is neither written
\* nor read, the lock is as it was and the failed caller owns it in no mode.
LockFailureIsFatal ==
    /\ [](\A t \in Threads :
            pc[t] = "lock_failed" =>
                /\ t \notin readers /\ writer # t /\ entered # t
                /\ logged[t] = NoValue /\ ret[t] = NoValue /\ tmp[t] = NoValue)
    /\ [][\A t \in Threads :
            ((AtLock(t) \/ AtLockShared(t)) /\ pc'[t] # pc[t]) =>
                \/ AtLockShared(t) /\ pc'[t] = "get_log" /\ t \in readers'
                \/ AtLock(t) /\ pc'[t] \in {"inc_read", "rst_write"} /\ writer' = t
                \/ /\ pc'[t] = "lock_failed"
                   /\ UNCHANGED <<value, lockVars, tmp, logged, ret>>]_vars

\* a call failed at its lock statement while another thread is inside
LockFailedOtherInside ==
    \E t, u \in Threads :
        pc[t] = "lock_failed" /\ t # u /\ (InReadCS(u) \/ InWriteCS(u))

\* C20  get() reads value_ twice under one shared lock: the value a get()
\* call logged equals the value it returns, whatever increment() and reset()
\* calls run concurrently.
LoggedEqualsReturned ==
    \A t \in Threads : ret[t] # NoValue => logged[t] = ret[t]

\* a get() has made both reads while a caller of increment() or reset() waits
GetReadTwiceWriterWaiting ==
    \E t, u \in Threads : pc[t] = "get_unlock" /\ ret[t] # NoValue /\ AtLock(u)

\* the readers whose current or last get() was called while w already waited
\* in its present call of lock(), and that have taken the shared lock since
Overtakers(w) ==
    {t \in Readers : <<w, loops[w]>> \in behind[t] /\ pc[t] # "get_lock"}

\* C12  No fairness or FIFO order between waiters: a get() called after a
\* writer started waiting is not queued behind it; while no thread owns the
\* lock exclusively and no writer has closed it to new readers, that get() can
\* take the shared lock before the writer, reader after reader.
ReadersMayOvertake ==
    \A t, w \in Threads :
        (AtLockShared(t) /\ AtLock(w) /\ <<w, loops[w]>> \in behind[t]
            /\ writer = NoThread /\ entered = NoThread)
            => ENABLED LockShared(t)

\* on a reader-preferring build a writer still waits in the call of lock()
\* that two later get() calls have overtaken
WriterOvertakenTwice ==
    \E w \in Writers :
        policy = "reader_pref" /\ AtLock(w) /\ Cardinality(Overtakers(w)) >= 2

\* C18  Driver termination and deadlock freedom: under a fair lock and fair
\* scheduling every thread finishes and every join returns, and in no state
\* short of that is every step disabled.
DriverTerminates ==
    /\ <>AllJoined
    /\ [](AllJoined \/ ENABLED DriverNext)

\* main has joined every thread
EveryThreadJoined == AllJoined /\ \A t \in Threads : pc[t] = "done"

\* unsigned int values compared as numbers
Leq(a, b) == a[1] < b[1] \/ (a[1] = b[1] /\ a[2] <= b[2])

\* v + n as a number, without wrapping
PlusExact(v, n) ==
    <<v[1] + ((v[2] + n) \div HalfModulus), (v[2] + n) % HalfModulus>>

\* increment() calls that have entered their critical section so far
IncrementsEntered ==
    incDone + Cardinality({t \in Threads :
                    pc[t] \in {"inc_read", "inc_write", "inc_log", "inc_unlock"}})

\* C19  In the driver's workload the values successive get() calls of one
\* reader return never decrease, and each lies between the initial value v0
\* and v0 plus the number of increment() calls that have entered so far.
ReaderValuesMonotone ==
    \A t \in Readers :
        ret[t] # NoValue =>
            /\ prevRet[t] # NoValue => Leq(prevRet[t], ret[t])
            /\ Leq(v0, ret[t])
            /\ Leq(ret[t], PlusExact(v0, IncrementsEntered))

\* C13  Timer monotonicity: after any calls of tic() and toc() end_ >= start_
\* and the elapsed value is not negative; after toc() it is at least the time
\* slept since the last tic() (or the construction).
TimerMonotone ==
    /\ start_ <= end_
    /\ \A a \in Accessors : Elapsed(a) >= 0
    /\ LastOp = "toc" => Elapsed("tics") >= measured

\* toc() after a tic() and a sleep that lasted longer than asked
TocAfterTicAndSleep ==
    /\ LastOp = "toc" /\ TicCalled
    /\ measured >= 1
    /\ end_ - start_ > measured * TicksPerUnit

\* C14  Timer restartability: right after tic() start_ and end_ both are the
\* instant of that tic() and the elapsed value is 0; after a toc() the elapsed
\* value is the time from the latest tic() to that toc(), at least the time
\* slept in between, whatever was measured before.
TimerRestarts ==
    /\ LastOp = "tic" =>
        /\ start_ = ticAt /\ end_ = ticAt
        /\ \A a \in Accessors : Elapsed(a) = 0
    /\ (LastOp = "toc" /\ TicCalled) =>
        /\ end_ - start_ = tocAt - ticAt
        /\ \A a \in Accessors : Elapsed(a) = DurationCast(tocAt - ticAt, Ratio(a))
        /\ Elapsed("tics") >= measured

\* the second round of tic(), sleep, toc(), after a first one that measured
\* some time
SecondRoundMeasured ==
    /\ Len(history) = 4
    /\ history[1] = "tic" /\ history[2] = "toc"
    /\ history[3] = "tic" /\ history[4] = "toc"
    /\ ticAt >= TicksPerUnit /\ measured >= 1

\* C15  toc() sets end_ to the current instant and leaves start_ unchanged: with
\* no tic() since the construction start_ stays the instant of construction,
\* and repeated toc() calls measure from the same start_.
TocKeepsStart ==
    /\ [](~TicCalled => start_ = ticAt)
    /\ [][(Len(history') > Len(history) /\ history'[Len(history')] = "toc")
            => (start_' = start_ /\ end_' = now)]_vars

\* two toc() calls at different instants and no tic() since the construction
TwoTocsNoTic ==
    /\ Len(history) >= 2
    /\ ~TicCalled
    /\ history[Len(history)] = "toc"
    /\ \E i \in 1 .. Len(history) - 1 : history[i] = "toc"
    /\ start_ < end_ /\ end_ = now

\* C16  A timer starts with start_ = end_: before any toc() since the
\* construction or the last tic(), the elapsed value read is 0.
ElapsedZeroBeforeToc ==
    LastOp \in {"ctor", "tic"} =>
        /\ start_ = end_
        /\ \A a \in Accessors : reported[a] # <<>> => reported[a] = <<0>>

\* the elapsed value was read as 0 before any toc(), the clock having advanced
ReadBeforeToc ==
    LastOp = "ctor" /\ reported["tics"] = <<0>> /\ now > start_ + TicksPerUnit

\* C17  The elapsed accessors are pure reads: a call leaves start_ and end_
\* unchanged, and returns what the same accessor returned before if no tic()
\* or toc() came in between, however far the clock has advanced.
ElapsedIsPure ==
    [][\A a \in Accessors :
        (Len(history') > Len(history) /\ history'[Len(history')] = a)
            => /\ start_' = start_ /\ end_' = end_
               /\ reported'[a] = <<DurationCast(end_ - start_, Ratio(a))>>
               /\ reported[a] # <<>> => reported'[a] = reported[a]]_vars

\* tics() was called twice in a row after a toc(), the clock advancing
TwoReadsClockAdvanced ==
    /\ Len(history) >= 3
    /\ history[Len(history)] = "tics" /\ history[Len(history) - 1] = "tics"
    /\ LastOp = "toc"
    /\ now > end_ /\ end_ > start_

====
